---- MODULE Spec2Model ----
(***************************************************************************)
(* Model of tradingdate: the calendar registry (CalendarEngine), the       *)
(* nearest-date lookups of TradingCalendar, the arithmetic of TradingDate, *)
(* get_trading_dates and the DateRange iterator.                           *)
(*                                                                         *)
(* A calendar dict {yyyy: {mm: [dd, ...]}} is a function from years to     *)
(* functions from months to sequences of days.  A date given by a caller   *)
(* is the integer yyyymmdd; a TradingDate is the triple <<y, m, d>> its    *)
(* constructor stores.                                                     *)
(***************************************************************************)
EXTENDS Integers, Sequences, FiniteSets, TLC

VARIABLES
    cache,  \* CalendarEngine.__calendar_cache: the dict from calendar id to calendar dict
    calls,  \* number of calls made to the workday provider
    last,   \* the call in progress: its name, its arguments and what it returned or raised
    rng,    \* the DateRange object under iteration (<<>> before it is constructed)
    its,    \* the generators made from rng: position, date held, dates yielded so far
    hist,   \* history of the registry calls, read by the properties only
    thr     \* the threads inside get_chinese_calendar: position and locals

vars == <<cache, calls, last, rng, its, hist, thr>>

(***************************************************************************)
(* Bounds of the model.  Calendars hold at most MaxDates dates, drawn from *)
(* NumYears years (ArithYears for the arithmetic, where crossing a missing *)
(* year needs three), the months January and December and the days 1 and   *)
(* 31.                                                                     *)
(***************************************************************************)
FirstYear == 2024
NumYears == 2
ArithYears == 3
MaxDates == 3
MaxStep == 2
MaxCalls == 2
NumThreads == 2

CalYears == FirstYear .. (FirstYear + NumYears - 1)
ArithCalYears == FirstYear .. (FirstYear + ArithYears - 1)
CalMonths == {1, 12}
CalDays == {1, 31}

(* Dates a caller may pass: members, gaps, and day/month values outside    *)
(* any real month.                                                         *)
ProbeYears == (FirstYear - 1) .. (FirstYear + NumYears)
ProbeMonths == {0, 1, 6, 12, 13}
ProbeDays == {0, 1, 15, 32}

(* start and end of get_trading_dates: before, inside and after the        *)
(* calendar, members or not                                                *)
BoundMonths == {1, 12}
BoundDays == {1, 15, 31}

(***************************************************************************)
(* Sequences and sets of integers.                                         *)
(***************************************************************************)
Range(s) == {s[i] : i \in DOMAIN s}

SetMin(S) == CHOOSE x \in S : \A z \in S : x <= z

SetMax(S) == CHOOSE x \in S : \A z \in S : x >= z

RECURSIVE SortedSeq(_)
SortedSeq(S) ==
    IF S = {} THEN <<>> ELSE <<SetMin(S)>> \o SortedSeq(S \ {SetMin(S)})

(* list.index(v): position (from 1) of the first element equal to v *)
IndexOf(s, v) == SetMin({i \in DOMAIN s : s[i] = v})

(***************************************************************************)
(* Formatting and parsing of yyyymmdd.                                     *)
(***************************************************************************)
(* f"{v:02}" pads to two digits and grows to three for 100..999 *)
Width02(v) == IF v < 100 THEN 100 ELSE 1000

(* int(f"{y}{m:02}{d:02}") *)
FormatDate(y, m, d) == (y * Width02(m) + m) * Width02(d) + d

(* split_date: int(s[:-4]), int(s[-4:-2]), int(s[-2:]) *)
split_date(date) == <<date \div 10000, (date \div 100) % 100, date % 100>>

(* TradingDate.asint() *)
asint(td) == FormatDate(td[1], td[2], td[3])

(***************************************************************************)
(* Calendar dicts.                                                         *)
(***************************************************************************)
Universe(years) == {<<y, m, d>> : y \in years, m \in CalMonths, d \in CalDays}

(* the subsets of U with at most k elements *)
RECURSIVE SubsetsUpTo(_, _)
SubsetsUpTo(U, k) ==
    IF k = 0 THEN {{}}
    ELSE LET P == SubsetsUpTo(U, k - 1) IN P \cup {S \cup {x} : S \in P, x \in U}

(* {yyyy: {mm: [dd, ...]}} holding the dates of S, day lists ascending *)
CalOf(S) ==
    [y \in {t[1] : t \in S} |->
        [m \in {t[2] : t \in {u \in S : u[1] = y}} |->
            SortedSeq({t[3] : t \in {u \in S : u[1] = y /\ u[2] = m}})]]

(* the well-formed calendars of at most MaxDates dates *)
Calendars == {CalOf(S) : S \in SubsetsUpTo(Universe(CalYears), MaxDates) \ {{}}}

ArithCalendars == {CalOf(S) : S \in SubsetsUpTo(Universe(ArithCalYears), MaxDates) \ {{}}}

(* every (y, m, d) of a calendar dict *)
DatesOf(cal) ==
    UNION {UNION {{<<y, m, cal[y][m][i]>> : i \in DOMAIN cal[y][m]} : m \in DOMAIN cal[y]}
              : y \in DOMAIN cal}

(***************************************************************************)
(* Results of a call: a TradingDate, or the exception raised.              *)
(***************************************************************************)
NoDate == <<0, 0, 0>>

Ok(td) == [kind |-> "TradingDate", val |-> td, out |-> <<>>]

Err(e) == [kind |-> e, val |-> NoDate, out |-> <<>>]

(***************************************************************************)
(* TradingCalendar                                                         *)
(***************************************************************************)
(* TradingCalendar.start *)
start(cal) ==
    LET y == SetMin(DOMAIN cal)
        m == SetMin(DOMAIN cal[y])
    IN  <<y, m, cal[y][m][1]>>

(* TradingCalendar.end *)
end(cal) ==
    LET y == SetMax(DOMAIN cal)
        m == SetMax(DOMAIN cal[y])
    IN  <<y, m, cal[y][m][Len(cal[y][m])]>>

(* a bug: only the year right after y is looked for *)
HasLaterYearNextOnly(cal, y) == y + 1 \in DOMAIN cal

(* `y < max(self.cache)`: some year of the calendar comes after y *)
HasLaterYear(cal, y) == y < SetMax(DOMAIN cal)

(* `y > min(self.cache)`: some year of the calendar comes before y *)
HasEarlierYear(cal, y) == y > SetMin(DOMAIN cal)

RECURSIVE get_nearest_date_after(_, _)
get_nearest_date_after(cal, date) ==
    LET y == split_date(date)[1]
        m == split_date(date)[2]
        d == split_date(date)[3]
        onward == IF m >= 12
                  THEN get_nearest_date_after(cal, FormatDate(y + 1, 1, 1))
                  ELSE get_nearest_date_after(cal, FormatDate(y, m + 1, 1))
    IN  IF y \in DOMAIN cal
        THEN IF m \in DOMAIN cal[y]
             THEN LET mlist == cal[y][m]
                      hits == {i \in DOMAIN mlist : mlist[i] >= d}
                  IN  IF d \in Range(mlist) THEN Ok(<<y, m, d>>)
                      ELSE IF mlist = <<>> THEN Err("IndexError")
                      ELSE IF d <= mlist[Len(mlist)]
                           THEN IF hits # {}
                                THEN Ok(<<y, m, mlist[SetMin(hits)]>>)
                                ELSE Err("RuntimeError")
                           ELSE onward
             ELSE onward
        ELSE IF HasLaterYear(cal, y)
             THEN get_nearest_date_after(cal, FormatDate(y + 1, 1, 1))
             ELSE Err("OutOfCalendarError")

RECURSIVE get_nearest_date_before(_, _)
get_nearest_date_before(cal, date) ==
    LET y == split_date(date)[1]
        m == split_date(date)[2]
        d == split_date(date)[3]
        backward == IF m <= 1
                    THEN get_nearest_date_before(cal, FormatDate(y - 1, 12, 31))
                    ELSE get_nearest_date_before(cal, FormatDate(y, m - 1, 31))
    IN  IF y \in DOMAIN cal
        THEN IF m \in DOMAIN cal[y]
             THEN LET mlist == cal[y][m]
                      hits == {i \in DOMAIN mlist : mlist[i] <= d}
                  IN  IF d \in Range(mlist) THEN Ok(<<y, m, d>>)
                      ELSE IF mlist = <<>> THEN Err("IndexError")
                      ELSE IF d >= mlist[1]
                           THEN IF hits # {}
                                THEN Ok(<<y, m, mlist[SetMax(hits)]>>)
                                ELSE Err("RuntimeError")
                           ELSE backward
             ELSE backward
        ELSE IF HasEarlierYear(cal, y)
             THEN get_nearest_date_before(cal, FormatDate(y - 1, 12, 31))
             ELSE Err("OutOfCalendarError")

(***************************************************************************)
(* TradingDate                                                             *)
(***************************************************************************)
(* a bug: the step onto the next month's first date is not counted *)
AddCarryKeepsOne(len, idx, value) == value - (len - idx) + 1

(* `value -= len(month) - idx`, idx counted from 0 *)
AddCarry(len, idx, value) == value - (len - idx)

(* a bug: the step onto the previous month's last date is not counted *)
SubBorrowKeepsOne(idx, value) == value - idx

(* `value -= idx + 1`, idx counted from 0 *)
SubBorrow(idx, value) == value - (idx + 1)

RECURSIVE TradingDate_add(_, _, _)
RECURSIVE TradingDate_sub(_, _, _)

(* TradingDate.__add__ *)
TradingDate_add(cal, x, value) ==
    IF value < 0 THEN TradingDate_sub(cal, x, -value)
    ELSE LET y == split_date(asint(x))[1]
             m == split_date(asint(x))[2]
             d == split_date(asint(x))[3]
         IN  IF y \notin DOMAIN cal \/ m \notin DOMAIN cal[y] THEN Err("KeyError")
             ELSE IF d \notin Range(cal[y][m]) THEN Err("ValueError")
             ELSE LET month == cal[y][m]
                      idx == IndexOf(month, d) - 1
                      after == get_nearest_date_after(cal, FormatDate(y, m + 1, 1))
                  IN  IF idx + value < Len(month)
                      THEN Ok(<<y, m, month[idx + value + 1]>>)
                      ELSE IF after.kind # "TradingDate" THEN after
                      ELSE TradingDate_add(cal, after.val, AddCarry(Len(month), idx, value))

(* TradingDate.__sub__ *)
TradingDate_sub(cal, x, value) ==
    IF value < 0 THEN TradingDate_add(cal, x, -value)
    ELSE LET y == split_date(asint(x))[1]
             m == split_date(asint(x))[2]
             d == split_date(asint(x))[3]
         IN  IF y \notin DOMAIN cal \/ m \notin DOMAIN cal[y] THEN Err("KeyError")
             ELSE IF d \notin Range(cal[y][m]) THEN Err("ValueError")
             ELSE LET month == cal[y][m]
                      idx == IndexOf(month, d) - 1
                      before == get_nearest_date_before(cal, FormatDate(y, m - 1, 31))
                  IN  IF idx >= value
                      THEN Ok(<<y, m, month[idx - value + 1]>>)
                      ELSE IF before.kind # "TradingDate" THEN before
                      ELSE TradingDate_sub(cal, before.val, SubBorrow(idx, value))

(* a bug: the raw next day is returned without looking it up *)
TradingDate_next_raw(cal, x) == Ok(<<x[1], x[2], x[3] + 1>>)

(* TradingDate.next *)
TradingDate_next(cal, x) ==
    get_nearest_date_after(cal, FormatDate(x[1], x[2], x[3] + 1))

(* a bug: the previous day is looked up forwards *)
TradingDate_last_forward(cal, x) ==
    get_nearest_date_after(cal, FormatDate(x[1], x[2], x[3] - 1))

(* TradingDate.last *)
TradingDate_last(cal, x) ==
    get_nearest_date_before(cal, FormatDate(x[1], x[2], x[3] - 1))

(***************************************************************************)
(* DateRange: the stored parameters, and the generators made by __iter__.  *)
(* A generator runs from one yield to the next on each pull.               *)
(***************************************************************************)
(* DateRange.__init__ *)
DateRange(startdate, stop, step, inclusive) ==
    [start |-> startdate, stop |-> stop, step |-> step, inclusive |-> inclusive]

(* the loop conditions of __iter_exclusively and __iter_inclusively *)
range_cond(r, date) ==
    IF r.inclusive
    THEN IF r.step > 0 THEN asint(date) <= r.stop ELSE asint(date) >= r.stop
    ELSE IF r.step > 0 THEN asint(date) < r.stop ELSE asint(date) > r.stop

(* a bug: the size of the step is not used, the range moves by one date *)
range_advance_by_one(cal, r, date) ==
    IF r.step > 0 THEN TradingDate_next(cal, date) ELSE TradingDate_last(cal, date)

(* the advance at the end of the loop body: next(), last() or date + step *)
range_advance(cal, r, date) ==
    IF r.step = 1 THEN TradingDate_next(cal, date)
    ELSE IF r.step = 0 - 1 THEN TradingDate_last(cal, date)
    ELSE TradingDate_add(cal, date, r.step)

Unborn == [pc |-> "unborn", date |-> NoDate, out |-> <<>>, err |-> "none"]

(* a bug: a one-shot cursor kept on the range, so that a new iteration     *)
(* resumes where the furthest one stands                                   *)
iter_begin_shared(r, gens) ==
    LET reached == {gens[i].date : i \in {j \in DOMAIN gens : gens[j].pc = "running"}}
    IN  IF reached = {} THEN r.start
        ELSE CHOOSE t \in reached : \A u \in reached : asint(t) >= asint(u)

(* `date, stop, step = self.__start, self.__stop, self.__step`: the date   *)
(* a generator starts from                                                 *)
iter_begin(r, gens) == r.start

(* a bug: no check for a zero step, which then takes the last branch *)
first_pull_unchecked(r, g, date) ==
    IF range_cond(r, date)
    THEN [pc |-> "running", date |-> date, out |-> Append(g.out, date), err |-> "none"]
    ELSE [pc |-> "done", date |-> date, out |-> g.out, err |-> "none"]

(* the first pull: the branch on step, the first test of the loop          *)
(* condition and the first yield                                           *)
first_pull(r, g, date) ==
    IF r.step = 0
    THEN [pc |-> "raised", date |-> date, out |-> g.out, err |-> "ValueError"]
    ELSE IF range_cond(r, date)
    THEN [pc |-> "running", date |-> date, out |-> Append(g.out, date), err |-> "none"]
    ELSE [pc |-> "done", date |-> date, out |-> g.out, err |-> "none"]

(* a later pull: advance, test the loop condition, yield or finish *)
next_pull(cal, r, g) ==
    LET adv == range_advance(cal, r, g.date)
    IN  IF adv.kind # "TradingDate"
        THEN [pc |-> "raised", date |-> g.date, out |-> g.out, err |-> adv.kind]
        ELSE IF range_cond(r, adv.val)
        THEN [pc |-> "running", date |-> adv.val, out |-> Append(g.out, adv.val),
              err |-> "none"]
        ELSE [pc |-> "done", date |-> adv.val, out |-> g.out, err |-> "none"]

(***************************************************************************)
(* CalendarEngine: the process-wide registry, a dict from id to calendar.  *)
(***************************************************************************)
(* d[k] = v on a dict *)
DictSet(d, k, v) == [i \in DOMAIN d \cup {k} |-> IF i = k THEN v ELSE d[i]]

(* a bug: an id already present keeps its earlier entry *)
register_calendar_keep(reg, calendar_id, caldict) ==
    IF calendar_id \in DOMAIN reg THEN reg ELSE DictSet(reg, calendar_id, caldict)

(* CalendarEngine.register_calendar *)
register_calendar(reg, calendar_id, caldict) == DictSet(reg, calendar_id, caldict)

GotCal(c) == [kind |-> "CalendarDict", val |-> c, out |-> <<>>]

(* CalendarEngine.get_calendar *)
engine_get_calendar(reg, calendar_id) ==
    IF calendar_id \in DOMAIN reg THEN GotCal(reg[calendar_id]) ELSE Err("KeyError")

(* the first year the workday provider is asked for *)
ChineseStartYear == 2004

(* the loop of get_chinese_calendar over the provider's workdays ws, from  *)
(* the i-th on; y and m are the year and month of the previous workday     *)
RECURSIVE build_chinese(_, _, _, _, _)
build_chinese(ws, i, y, m, cal) ==
    IF i > Len(ws) THEN cal
    ELSE LET x == ws[i]
         IN  IF x[1] = y
             THEN IF x[2] = m
                  THEN build_chinese(ws, i + 1, x[1], x[2],
                                     [cal EXCEPT ![y][m] = Append(@, x[3])])
                  ELSE build_chinese(ws, i + 1, x[1], x[2],
                                     [cal EXCEPT ![y] = DictSet(@, x[2], <<x[3]>>)])
             ELSE build_chinese(ws, i + 1, x[1], x[2],
                                DictSet(cal, x[1], DictSet(<<>>, x[2], <<x[3]>>)))

(* a bug: the cache is never consulted, every get builds again *)
chinese_cached_never(reg) == FALSE

(* `"chinese" not in self.__calendar_cache`, negated *)
chinese_cached(reg) == "chinese" \in DOMAIN reg

(* CalendarEngine.get_chinese_calendar: the registry after the call, given *)
(* the workdays ws the provider returns if it is asked                     *)
get_chinese_calendar(reg, ws) ==
    IF chinese_cached(reg) THEN reg
    ELSE DictSet(reg, "chinese",
                 build_chinese(ws, 1, ChineseStartYear, 1,
                               DictSet(<<>>, ChineseStartYear, DictSet(<<>>, 1, <<>>))))

(***************************************************************************)
(* get_trading_date(date, calendar_id, missing)                            *)
(***************************************************************************)
Policies == {"use_next", "use_last", "use_before", "raise"}

get_trading_date(reg, date, calendar_id, missing) ==
    IF calendar_id \notin DOMAIN reg THEN Err("KeyError")
    ELSE CASE missing = "use_next" -> get_nearest_date_after(reg[calendar_id], date)
           [] missing = "use_last" -> get_nearest_date_before(reg[calendar_id], date)
           [] missing = "raise" -> Err("NotOnCalendarError")
           [] OTHER -> Err("ValueError")

(***************************************************************************)
(* get_trading_dates(start, end, calendar_id): the generator run to its    *)
(* end.  An argument is <<>> for None and <<yyyymmdd>> otherwise; the      *)
(* result holds the dates yielded and how the generator ended.             *)
(***************************************************************************)
None == <<>>

Done(out) == [kind |-> "done", val |-> NoDate, out |-> out]

Raised(e, out) == [kind |-> e, val |-> NoDate, out |-> out]

(* `while date < end: yield date; date = date.next()` and the final        *)
(* `if date == end: yield date`                                            *)
RECURSIVE get_trading_dates_loop(_, _, _, _)
get_trading_dates_loop(cal, date, endint, out) ==
    IF asint(date) < endint
    THEN LET nxt == TradingDate_next(cal, date)
         IN  IF nxt.kind # "TradingDate" THEN Raised(nxt.kind, Append(out, date))
             ELSE get_trading_dates_loop(cal, nxt.val, endint, Append(out, date))
    ELSE IF asint(date) = endint THEN Done(Append(out, date)) ELSE Done(out)

get_trading_dates(reg, startarg, endarg, calendar_id) ==
    IF startarg = None THEN Raised("TypeError", <<>>)
    ELSE IF endarg = None THEN Raised("TypeError", <<>>)
    ELSE IF calendar_id \notin DOMAIN reg THEN Raised("KeyError", <<>>)
    ELSE LET cal == reg[calendar_id]
             first == IF startarg = None THEN Ok(start(cal))
                      ELSE get_nearest_date_after(cal, startarg[1])
             endint == IF endarg = None THEN asint(end(cal)) ELSE endarg[1]
         IN  IF first.kind # "TradingDate" THEN Raised(first.kind, <<>>)
             ELSE get_trading_dates_loop(cal, first.val, endint, <<>>)

(* date(date, calendar_id, missing) of tradingdate/core.py *)
tradingdate_date(reg, date, calendar_id, missing) ==
    IF calendar_id \notin DOMAIN reg THEN Err("KeyError")
    ELSE CASE missing = "use_next" -> get_nearest_date_after(reg[calendar_id], date)
           [] missing = "use_before" -> get_nearest_date_before(reg[calendar_id], date)
           [] missing = "raise" -> Err("NotOnCalendarError")
           [] OTHER -> Err("ValueError")

Probes == {FormatDate(y, m, d) : y \in ProbeYears, m \in ProbeMonths, d \in ProbeDays}

(* history: the day-set last registered under each id, whether a register  *)
(* replaced an entry by a different day-set, the number of gets of         *)
(* "chinese" so far (counted up to 2), what the first of them returned,    *)
(* and whether "chinese" was registered since                              *)
NoHist == [latest |-> <<>>, replaced |-> FALSE, gets |-> 0, first |-> <<>>, over |-> FALSE]

NoCall == [op |-> "none", args |-> <<>>, res |-> Err("none")]

Init ==
    /\ \E cal \in Calendars : cache = register_calendar(<<>>, "user", cal)
    /\ calls = 0
    /\ last = NoCall
    /\ rng = <<>>
    /\ its = <<>>
    /\ hist = NoHist
    /\ thr = <<>>

(* the caller takes the result of the call; the next call may start *)
Return ==
    /\ last.op # "none"
    /\ last' = NoCall
    /\ UNCHANGED <<cache, calls, rng, its, hist, thr>>

Resolve ==
    \E date \in Probes, missing \in Policies :
        /\ last.op = "none"
        /\ last' = [op |-> "get_trading_date", args |-> <<date, missing>>,
                    res |-> get_trading_date(cache, date, "user", missing)]
        /\ UNCHANGED <<cache, calls, rng, its, hist, thr>>

ResolveByDate ==
    \E date \in Probes, missing \in Policies :
        /\ last.op = "none"
        /\ last' = [op |-> "date", args |-> <<date, missing>>,
                    res |-> tradingdate_date(cache, date, "user", missing)]
        /\ UNCHANGED <<cache, calls, rng, its, hist, thr>>

InitArith ==
    /\ \E cal \in ArithCalendars : cache = register_calendar(<<>>, "user", cal)
    /\ calls = 0
    /\ last = NoCall
    /\ rng = <<>>
    /\ its = <<>>
    /\ hist = NoHist
    /\ thr = <<>>

(* x + n and x - n for a TradingDate x of the calendar *)
Offsets == (0 - MaxDates) .. MaxDates

Add ==
    \E x \in DatesOf(cache["user"]), n \in Offsets :
        /\ last.op = "none"
        /\ last' = [op |-> "add", args |-> <<x, n>>,
                    res |-> TradingDate_add(cache["user"], x, n)]
        /\ UNCHANGED <<cache, calls, rng, its, hist, thr>>

Sub ==
    \E x \in DatesOf(cache["user"]), n \in Offsets :
        /\ last.op = "none"
        /\ last' = [op |-> "sub", args |-> <<x, n>>,
                    res |-> TradingDate_sub(cache["user"], x, n)]
        /\ UNCHANGED <<cache, calls, rng, its, hist, thr>>

(* (x + n) - n: the date x + n returned is moved back by the same n *)
SubAfterAdd ==
    /\ last.op = "add"
    /\ last.res.kind = "TradingDate"
    /\ last' = [op |-> "add_then_sub", args |-> last.args,
                res |-> TradingDate_sub(cache["user"], last.res.val, last.args[2])]
    /\ UNCHANGED <<cache, calls, rng, its, hist, thr>>

(* (x - n) + n *)
AddAfterSub ==
    /\ last.op = "sub"
    /\ last.res.kind = "TradingDate"
    /\ last' = [op |-> "sub_then_add", args |-> last.args,
                res |-> TradingDate_add(cache["user"], last.res.val, last.args[2])]
    /\ UNCHANGED <<cache, calls, rng, its, hist, thr>>

(* x.next() and x.last() *)
Step ==
    \E x \in DatesOf(cache["user"]) :
        /\ last.op = "none"
        /\ \/ last' = [op |-> "next", args |-> <<x, 1>>,
                       res |-> TradingDate_next(cache["user"], x)]
           \/ last' = [op |-> "last", args |-> <<x, 1>>,
                       res |-> TradingDate_last(cache["user"], x)]
        /\ UNCHANGED <<cache, calls, rng, its, hist, thr>>

Bounds ==
    {None} \cup {<<FormatDate(y, m, d)>> : y \in ProbeYears, m \in BoundMonths, d \in BoundDays}

GetTradingDates ==
    \E startarg \in Bounds, endarg \in Bounds :
        /\ last.op = "none"
        /\ last' = [op |-> "get_trading_dates", args |-> <<startarg, endarg>>,
                    res |-> get_trading_dates(cache, startarg, endarg, "user")]
        /\ UNCHANGED <<cache, calls, rng, its, hist, thr>>

Next == Resolve \/ ResolveByDate \/ Return

Spec == Init /\ [][Next]_vars

NextArith == Add \/ Sub \/ SubAfterAdd \/ AddAfterSub \/ Return

SpecArith == InitArith /\ [][NextArith]_vars

(* single steps, on calendars with consecutive days, consecutive months,   *)
(* missing months and a missing year                                       *)
StepUniverse ==
    {<<FirstYear, 1, 1>>, <<FirstYear, 1, 2>>, <<FirstYear, 1, 31>>, <<FirstYear, 2, 1>>,
     <<FirstYear, 12, 31>>, <<FirstYear + 2, 1, 1>>}

StepCalendars == {CalOf(S) : S \in (SUBSET StepUniverse) \ {{}}}

InitStep ==
    /\ \E cal \in StepCalendars : cache = register_calendar(<<>>, "user", cal)
    /\ calls = 0
    /\ last = NoCall
    /\ rng = <<>>
    /\ its = <<>>
    /\ hist = NoHist
    /\ thr = <<>>

NextStep == Step \/ Add \/ Sub \/ Return

SpecStep == InitStep /\ [][NextStep]_vars

NextDates == GetTradingDates \/ Return

SpecDates == Init /\ [][NextDates]_vars

(***************************************************************************)
(* Iterating a DateRange: one range object, two generators over it.        *)
(***************************************************************************)
RangeUniverse ==
    {<<FirstYear, 1, 1>>, <<FirstYear, 1, 31>>, <<FirstYear, 12, 31>>, <<FirstYear + 1, 1, 1>>}

RangeCalendars == {CalOf(S) : S \in (SUBSET RangeUniverse) \ {{}}}

(* stop values: members, gaps inside the calendar, and values outside it *)
Stops ==
    {asint(t) : t \in RangeUniverse} \cup
    {FormatDate(FirstYear - 1, 12, 31), FormatDate(FirstYear, 1, 15),
     FormatDate(FirstYear, 6, 1), FormatDate(FirstYear + 1, 1, 2)}

Steps == (0 - MaxStep) .. MaxStep

Gens == {1, 2}

InitRange ==
    /\ \E cal \in RangeCalendars : cache = register_calendar(<<>>, "user", cal)
    /\ calls = 0
    /\ last = NoCall
    /\ rng = <<>>
    /\ its = [i \in Gens |-> Unborn]
    /\ hist = NoHist
    /\ thr = <<>>

(* start.iterate_until(stop, step, inclusive=inclusive) *)
Construct ==
    \E x \in DatesOf(cache["user"]), stop \in Stops, step \in Steps, inclusive \in BOOLEAN :
        /\ rng = <<>>
        /\ rng' = DateRange(x, stop, step, inclusive)
        /\ UNCHANGED <<cache, calls, last, its, hist, thr>>

(* iter(rng): a new generator; none of its code has run yet *)
Iter(i) ==
    /\ rng # <<>>
    /\ its[i].pc = "unborn"
    /\ its' = [its EXCEPT ![i] = [Unborn EXCEPT !.pc = "fresh"]]
    /\ UNCHANGED <<cache, calls, last, rng, hist, thr>>

(* next(generator) *)
Pull(i) ==
    /\ rng # <<>>
    /\ its[i].pc \in {"fresh", "running"}
    /\ its' = [its EXCEPT ![i] =
                  IF its[i].pc = "fresh"
                  THEN first_pull(rng, its[i], iter_begin(rng, its))
                  ELSE next_pull(cache["user"], rng, its[i])]
    /\ UNCHANGED <<cache, calls, last, rng, hist, thr>>

NextRange == Construct \/ (\E i \in Gens : Iter(i)) \/ (\E i \in Gens : Pull(i))

SpecRange == InitRange /\ [][NextRange]_vars

(***************************************************************************)
(* The registry: get_calendar, register_calendar and make_calendar, in any *)
(* order, by one thread.                                                   *)
(***************************************************************************)
Ids == {"chinese", "user", "other"}

(* the workdays the provider may return: ascending, from January of the    *)
(* start year on                                                           *)
ProviderDays == {<<ChineseStartYear, 1, 5>>, <<ChineseStartYear + 1, 2, 1>>}

(* the day-sets a caller registers *)
RegCalendars ==
    {CalOf(S) : S \in (SUBSET {<<FirstYear, 1, 1>>, <<FirstYear, 12, 31>>}) \ {{}}}

ProviderLists ==
    {<<<<ChineseStartYear, 1, 2>>>> \o
        [i \in 1 .. Cardinality(S) |->
            split_date(SortedSeq({asint(t) : t \in S})[i])] : S \in SUBSET ProviderDays}

InitReg ==
    /\ cache = <<>>
    /\ calls = 0
    /\ last = NoCall
    /\ rng = <<>>
    /\ its = <<>>
    /\ hist = NoHist
    /\ thr = <<>>

(* get_calendar(calendar_id) *)
GetCalendar ==
    \E id \in Ids, ws \in ProviderLists :
        /\ last.op = "none"
        /\ calls < MaxCalls
        /\ cache' = IF id = "chinese" THEN get_chinese_calendar(cache, ws) ELSE cache
        /\ calls' = IF id = "chinese" /\ ~chinese_cached(cache) THEN calls + 1 ELSE calls
        /\ last' = [op |-> "get_calendar", args |-> <<id>>,
                    res |-> engine_get_calendar(cache', id)]
        /\ hist' = IF id = "chinese"
                   THEN [hist EXCEPT !.gets = IF @ < 2 THEN @ + 1 ELSE @,
                                     !.first = IF hist.gets = 0 THEN cache'["chinese"] ELSE @,
                                     !.over = IF hist.gets = 0 THEN FALSE ELSE @]
                   ELSE hist
        /\ UNCHANGED <<rng, its, thr>>

(* what register_calendar may be handed: a day-set, or the empty dict {} *)
RegInputs == RegCalendars \cup {<<>>}

(* CalendarEngine().register_calendar(calendar_id, caldict); it returns    *)
(* None                                                                    *)
Register ==
    \E id \in Ids, c \in RegInputs :
        /\ last.op = "none"
        /\ cache' = register_calendar(cache, id, c)
        /\ last' = [op |-> "register_calendar", args |-> <<id, c>>, res |-> Err("none")]
        /\ hist' = [hist EXCEPT !.latest = DictSet(@, id, c),
                                !.replaced = @ \/ (id \in DOMAIN cache /\ cache[id] # c),
                                !.over = IF id = "chinese" THEN TRUE ELSE @]
        /\ UNCHANGED <<calls, rng, its, thr>>

(* make_calendar(calendar_id, caldict): register, then get *)
MakeCalendar ==
    \E id \in Ids, c \in RegCalendars :
        /\ last.op = "none"
        /\ cache' = register_calendar(cache, id, c)
        /\ last' = [op |-> "make_calendar", args |-> <<id, c>>,
                    res |-> engine_get_calendar(cache', id)]
        /\ hist' = [hist EXCEPT !.latest = DictSet(@, id, c),
                                !.replaced = @ \/ (id \in DOMAIN cache /\ cache[id] # c),
                                !.over = IF id = "chinese" THEN TRUE ELSE @]
        /\ UNCHANGED <<calls, rng, its, thr>>

NextReg == GetCalendar \/ Register \/ MakeCalendar \/ Return

SpecReg == InitReg /\ [][NextReg]_vars

(***************************************************************************)
(* Views and comparisons.  An operand of a comparison is a record: cls is  *)
(* its class, id and cache the fields of a calendar or view, val the       *)
(* triple of a TradingDate, <<n>> for the integer n, or the characters of  *)
(* a string of digits.                                                     *)
(***************************************************************************)
Operand(cls, id, caldict, val) == [cls |-> cls, id |-> id, cache |-> caldict, val |-> val]

DateObj(td) == Operand("TradingDate", "", <<>>, td)

IntObj(n) == Operand("int", "", <<>>, <<n>>)

StrObj(digits) == Operand("str", "", <<>>, digits)

(* TradingCalendar(calendar_id, caldict) *)
WholeCalendar(id, caldict) == Operand("TradingCalendar", id, caldict, <<>>)

ViewClasses == {"YearCalendar", "MonthCalendar", "WeekCalendar", "DayCalendar"}

CalendarClasses == ViewClasses \cup {"TradingCalendar"}

(* datetime.date(y, m, d).toordinal(), up to a constant: the days since    *)
(* 1 March of year 0 of the proleptic Gregorian calendar                   *)
Ordinal(y, m, d) ==
    LET yy == IF m <= 2 THEN y - 1 ELSE y
        mm == IF m <= 2 THEN m + 9 ELSE m - 3
    IN  365 * yy + (yy \div 4) - (yy \div 100) + (yy \div 400) + ((153 * mm + 2) \div 5) + d - 1

(* datetime.date(y, m, d).weekday(): Monday is 0; 1 March of year 0 was a  *)
(* Wednesday                                                               *)
weekday(y, m, d) == (Ordinal(y, m, d) + 2) % 7

(* strftime("%W"): the week of the year, weeks starting on Monday and the  *)
(* days before the first Monday being in week 0                            *)
WeekOfYear(y, m, d) == (Ordinal(y, m, d) - Ordinal(y, 1, 1) + 7 - weekday(y, m, d)) \div 7

(* TradingDate.year *)
TradingDate_year(id, cal, x) ==
    Operand("YearCalendar", id, DictSet(<<>>, x[1], cal[x[1]]), <<>>)

(* TradingDate.month *)
TradingDate_month(id, cal, x) ==
    Operand("MonthCalendar", id,
            DictSet(<<>>, x[1], DictSet(<<>>, x[2], cal[x[1]][x[2]])), <<>>)

(* TradingDate.week: the calendar dates of the Monday-to-Sunday week of x *)
TradingDate_week(id, cal, x) ==
    LET monday == Ordinal(x[1], x[2], x[3]) - weekday(x[1], x[2], x[3])
        inweek == {t \in DatesOf(cal) : Ordinal(t[1], t[2], t[3]) \in monday .. (monday + 6)}
    IN  Operand("WeekCalendar", id, CalOf(inweek), <<>>)

(* TradingDate.day *)
TradingDate_day(id, cal, x) ==
    Operand("DayCalendar", id,
            DictSet(<<>>, x[1], DictSet(<<>>, x[2], <<x[3]>>)), <<>>)

(* list(self.cache)[0] and list(list(self.cache.values())[0])[0]: the      *)
(* first year of a view and the first month of that year                   *)
FirstYearOf(v) == SetMin(DOMAIN v.cache)

FirstMonthOf(v) == SetMin(DOMAIN v.cache[FirstYearOf(v)])

(* __hash__ of TradingDate and of the four views; hash(str(self)) of a     *)
(* whole calendar is a string hash, which no comparison reads              *)
hash(v) ==
    CASE v.cls = "TradingDate" -> asint(v.val)
      [] v.cls = "YearCalendar" -> FirstYearOf(v)
      [] v.cls = "MonthCalendar" ->
            FirstYearOf(v) * Width02(FirstMonthOf(v)) + FirstMonthOf(v)
      [] v.cls = "DayCalendar" ->
            FormatDate(FirstYearOf(v), FirstMonthOf(v),
                       v.cache[FirstYearOf(v)][FirstMonthOf(v)][1])
      [] v.cls = "WeekCalendar" ->
            LET s == start(v.cache)
                t == split_date(asint(s))
            IN  (asint(s) - 1) * 100 + WeekOfYear(t[1], t[2], t[3])
      [] OTHER -> 0

(* str(n) for n >= 0, as the sequence of its decimal digits *)
RECURSIVE Digits(_)
Digits(n) == IF n < 10 THEN <<n>> ELSE Append(Digits(n \div 10), n % 10)

(* int(s) for a string of decimal digits *)
RECURSIVE ParseInt(_)
ParseInt(digits) ==
    IF digits = <<>> THEN 0
    ELSE 10 * ParseInt(SubSeq(digits, 1, Len(digits) - 1)) + digits[Len(digits)]

(* the order of two integers: -1, 0 or 1 *)
int_cmp(a, b) == IF a < b THEN 0 - 1 ELSE IF a > b THEN 1 ELSE 0

(* a bug: the two strings are compared by the numbers they spell *)
str_cmp_numeric(a, b) == int_cmp(ParseInt(a), ParseInt(b))

(* the order of two str objects: by the first position where they differ,  *)
(* a proper prefix coming first                                            *)
str_cmp(a, b) ==
    LET shorter == IF Len(a) < Len(b) THEN Len(a) ELSE Len(b)
        differ == {i \in 1 .. shorter : a[i] # b[i]}
    IN  IF differ # {} THEN int_cmp(a[SetMin(differ)], b[SetMin(differ)])
        ELSE int_cmp(Len(a), Len(b))

CompareOps == {"==", "<", ">", "<=", ">="}

(* the truth of `a op b` given the order c of a and b *)
Holds(op, c) ==
    CASE op = "==" -> c = 0
      [] op = "<" -> c < 0
      [] op = ">" -> c > 0
      [] op = "<=" -> c <= 0
      [] op = ">=" -> c >= 0

(* the operator with its operands swapped *)
Mirror(op) ==
    CASE op = "<" -> ">"
      [] op = ">" -> "<"
      [] op = "<=" -> ">="
      [] op = ">=" -> "<="
      [] OTHER -> op

Bool(b) == [kind |-> "bool", val |-> b, out |-> <<>>]

TypeError == [kind |-> "TypeError", val |-> FALSE, out |-> <<>>]

(* TradingCalendar.__valur2str: <<>> stands for the TypeError raised *)
valur2str(self, value) ==
    IF value.cls = "TradingCalendar" \/ self.cls = "TradingCalendar" THEN <<>>
    ELSE IF value.cls = "int" THEN Digits(value.val[1])
    ELSE IF value.cls \in CalendarClasses \cup {"TradingDate"} THEN Digits(hash(value))
    ELSE IF value.cls = "str" THEN value.val
    ELSE <<>>

(* a bug: two whole calendars are equal when their contents are *)
whole_eq_by_content(self, value) == self.cache = value.cache

(* `self.id == value.id` *)
whole_eq(self, value) == self.id = value.id

(* TradingCalendar.__eq__, __gt__, __lt__, __ge__, __le__ *)
TradingCalendar_compare(self, op, value) ==
    IF op = "==" /\ value.cls = "TradingCalendar" /\ self.cls = "TradingCalendar"
    THEN Bool(whole_eq(self, value))
    ELSE IF valur2str(self, value) = <<>> THEN TypeError
    ELSE Bool(Holds(op, str_cmp(Digits(hash(self)), valur2str(self, value))))

(* int(value) for a TradingDate, an int or a str *)
int_of(value) ==
    CASE value.cls = "TradingDate" -> asint(value.val)
      [] value.cls = "int" -> value.val[1]
      [] value.cls = "str" -> ParseInt(value.val)

(* TradingDate.__eq__, __gt__, __lt__, __ge__, __le__ *)
TradingDate_compare(self, op, value) ==
    IF value.cls \in CalendarClasses
    THEN TradingCalendar_compare(value, Mirror(op), self)
    ELSE Bool(Holds(op, int_cmp(asint(self.val), int_of(value))))

(* `lhs op rhs` for lhs a TradingDate, a view or a whole calendar *)
compare(lhs, op, rhs) ==
    IF lhs.cls = "TradingDate" THEN TradingDate_compare(lhs, op, rhs)
    ELSE TradingCalendar_compare(lhs, op, rhs)

(***************************************************************************)
(* Comparing dates, views, whole calendars, integers and strings.          *)
(***************************************************************************)
(* 31 December and 1 January fall in one week unless the 31st is a Sunday *)
CmpUniverse ==
    {<<FirstYear, 1, 1>>, <<FirstYear, 1, 31>>, <<FirstYear, 12, 31>>, <<FirstYear + 1, 1, 1>>}

CmpCalendars == {CalOf(S) : S \in (SUBSET CmpUniverse) \ {{}}}

(* raw integers: yyyymmdd values in and around the calendar, and the       *)
(* shorter yyyy and yyyymm                                                 *)
CmpInts ==
    {asint(t) : t \in CmpUniverse} \cup
    {FirstYear, FirstYear + 1, FirstYear * 100 + 1, FirstYear * 100 + 12,
     FormatDate(FirstYear - 1, 12, 31), FormatDate(FirstYear, 6, 15)}

(* the dates of the calendar and their year, month, week and day views *)
DatesAndViews(id, cal) ==
    UNION {{DateObj(x), TradingDate_year(id, cal, x), TradingDate_month(id, cal, x),
            TradingDate_week(id, cal, x), TradingDate_day(id, cal, x)} : x \in DatesOf(cal)}

(* whole calendars: the registered one, one of another id with the same    *)
(* content, and one of the same id with another content                    *)
WholeCalendars(cal) ==
    {WholeCalendar("user", cal), WholeCalendar("other", cal),
     WholeCalendar("user", CalOf({<<FirstYear, 6, 15>>}))}

InitCmp ==
    /\ \E cal \in CmpCalendars : cache = register_calendar(<<>>, "user", cal)
    /\ calls = 0
    /\ last = NoCall
    /\ rng = <<>>
    /\ its = <<>>
    /\ hist = NoHist
    /\ thr = <<>>

(* lhs op rhs, for lhs a date or a view *)
Compare ==
    \E lhs \in DatesAndViews("user", cache["user"]),
       rhs \in DatesAndViews("user", cache["user"])
                  \cup {IntObj(n) : n \in CmpInts} \cup {StrObj(Digits(n)) : n \in CmpInts},
       op \in CompareOps :
        /\ last.op = "none"
        /\ last' = [op |-> "compare", args |-> <<lhs, op, rhs>>, res |-> compare(lhs, op, rhs)]
        /\ UNCHANGED <<cache, calls, rng, its, hist, thr>>

(* comparisons with a whole calendar on either side *)
CompareWhole ==
    \E w \in WholeCalendars(cache["user"]),
       x \in DatesAndViews("user", cache["user"]) \cup WholeCalendars(cache["user"]),
       op \in CompareOps, swap \in BOOLEAN :
        /\ last.op = "none"
        /\ last' = [op |-> "compare",
                    args |-> IF swap THEN <<x, op, w>> ELSE <<w, op, x>>,
                    res |-> IF swap THEN compare(x, op, w) ELSE compare(w, op, x)]
        /\ UNCHANGED <<cache, calls, rng, its, hist, thr>>

NextCmp == Compare \/ CompareWhole \/ Return

SpecCmp == InitCmp /\ [][NextCmp]_vars

(***************************************************************************)
(* Every way of obtaining a TradingDate: the lookups, start and end, the   *)
(* iteration of the calendar, the arithmetic and the DateRange.            *)
(***************************************************************************)
(* the dates of the months ms (a sequence) of year y, in order *)
RECURSIVE iter_months(_, _, _)
iter_months(cal, y, ms) ==
    IF ms = <<>> THEN <<>>
    ELSE [i \in DOMAIN cal[y][Head(ms)] |-> <<y, Head(ms), cal[y][Head(ms)][i]>>]
             \o iter_months(cal, y, Tail(ms))

RECURSIVE iter_years(_, _)
iter_years(cal, ys) ==
    IF ys = <<>> THEN <<>>
    ELSE iter_months(cal, Head(ys), SortedSeq(DOMAIN cal[Head(ys)])) \o iter_years(cal, Tail(ys))

(* TradingCalendar.__iter__, run to its end: `for y in self.cache for m in *)
(* self.cache[y] for d in self.cache[y][m]`                                *)
TradingCalendar_iter(cal) == iter_years(cal, SortedSeq(DOMAIN cal))

(* calendar.start and calendar.end *)
Ends ==
    /\ last.op = "none"
    /\ \/ last' = [op |-> "start", args |-> <<>>, res |-> Ok(start(cache["user"]))]
       \/ last' = [op |-> "end", args |-> <<>>, res |-> Ok(end(cache["user"]))]
    /\ UNCHANGED <<cache, calls, rng, its, hist, thr>>

(* list(calendar) *)
Iterate ==
    /\ last.op = "none"
    /\ last' = [op |-> "iter", args |-> <<>>, res |-> Done(TradingCalendar_iter(cache["user"]))]
    /\ UNCHANGED <<cache, calls, rng, its, hist, thr>>

(* the calls read the registry only and are made before the range is       *)
(* built; the range is built when no call is in progress                   *)
CallForDate == rng = <<>> /\ (Resolve \/ Add \/ Sub \/ Step \/ Ends \/ Iterate)

ConstructRange == last.op = "none" /\ Construct

NextMember ==
    \/ CallForDate
    \/ Return
    \/ ConstructRange
    \/ \E i \in Gens : Iter(i)
    \/ \E i \in Gens : Pull(i)

SpecMember == InitRange /\ [][NextMember]_vars

(***************************************************************************)
(* Arithmetic of the Year and Month views.  A view finds the full calendar *)
(* through the registry, by its id.                                        *)
(***************************************************************************)
NoView == Operand("", "", <<>>, <<>>)

GotView(v) == [kind |-> v.cls, val |-> v, out |-> <<>>]

ViewErr(e) == [kind |-> e, val |-> NoView, out |-> <<>>]

(* list(d) for a dict d of a calendar: its keys in insertion order, which  *)
(* is ascending, the numbers of a calendar dict being sorted               *)
keys(d) == SortedSeq(DOMAIN d)

(* TradingCalendar.get_year *)
get_year(id, cal, year) ==
    IF year \notin DOMAIN cal THEN ViewErr("KeyError")
    ELSE GotView(Operand("YearCalendar", id, DictSet(<<>>, year, cal[year]), <<>>))

(* YearCalendar.get_month *)
get_month(yv, month) ==
    IF month \notin DOMAIN yv.cache[FirstYearOf(yv)] THEN ViewErr("KeyError")
    ELSE GotView(Operand("MonthCalendar", yv.id,
                         DictSet(<<>>, FirstYearOf(yv),
                                 DictSet(<<>>, month, yv.cache[FirstYearOf(yv)][month])),
                         <<>>))

(* `cal.get_year(str(y)[:4]).get_month(str(y)[4:])` for y = yyyymm *)
get_year_month(id, cal, yyyymm) ==
    LET digits == Digits(yyyymm)
        yv == get_year(id, cal, ParseInt(SubSeq(digits, 1, 4)))
    IN  IF yv.kind # "YearCalendar" THEN yv
        ELSE get_month(yv.val, ParseInt(SubSeq(digits, 5, Len(digits))))

RECURSIVE YearCalendar_add(_, _, _)
RECURSIVE YearCalendar_sub(_, _, _)

(* YearCalendar.__add__ *)
YearCalendar_add(reg, v, value) ==
    IF value < 0 THEN YearCalendar_sub(reg, v, 0 - value)
    ELSE IF v.id \notin DOMAIN reg THEN ViewErr("KeyError")
    ELSE LET cal == reg[v.id]
             year_list == keys(cal)
         IN  IF hash(v) \notin Range(year_list) THEN ViewErr("ValueError")
             ELSE LET idx == IndexOf(year_list, hash(v)) - 1
                  IN  IF idx + value < Len(year_list)
                      THEN get_year(v.id, cal, year_list[idx + value + 1])
                      ELSE ViewErr("OutOfCalendarError")

(* YearCalendar.__sub__ *)
YearCalendar_sub(reg, v, value) ==
    IF value < 0 THEN YearCalendar_add(reg, v, 0 - value)
    ELSE IF v.id \notin DOMAIN reg THEN ViewErr("KeyError")
    ELSE LET cal == reg[v.id]
             year_list == keys(cal)
         IN  IF hash(v) \notin Range(year_list) THEN ViewErr("ValueError")
             ELSE LET idx == IndexOf(year_list, hash(v)) - 1
                  IN  IF idx >= value
                      THEN get_year(v.id, cal, year_list[idx - value + 1])
                      ELSE ViewErr("OutOfCalendarError")

(* the yyyymm of the months ms (a sequence) of year y *)
months_of_year(y, ms) == [i \in DOMAIN ms |-> y * Width02(ms[i]) + ms[i]]

RECURSIVE months_of_years(_, _)
months_of_years(cal, ys) ==
    IF ys = <<>> THEN <<>>
    ELSE months_of_year(Head(ys), keys(cal[Head(ys)])) \o months_of_years(cal, Tail(ys))

(* a bug: every month of every year is listed, with a trading day or not *)
month_list_every_month(cal) ==
    LET ys == keys(cal)
    IN  [i \in 1 .. (12 * Len(ys)) |-> ys[((i - 1) \div 12) + 1] * 100 + ((i - 1) % 12) + 1]

(* `[int(f"{y}{m:02}") for y, x in cal.cache.items() for m in x]` *)
month_list(cal) == months_of_years(cal, keys(cal))

RECURSIVE MonthCalendar_add(_, _, _)
RECURSIVE MonthCalendar_sub(_, _, _)

(* MonthCalendar.__add__ *)
MonthCalendar_add(reg, v, value) ==
    IF value < 0 THEN MonthCalendar_sub(reg, v, 0 - value)
    ELSE IF v.id \notin DOMAIN reg THEN ViewErr("KeyError")
    ELSE LET cal == reg[v.id]
             months == month_list(cal)
         IN  IF hash(v) \notin Range(months) THEN ViewErr("ValueError")
             ELSE LET idx == IndexOf(months, hash(v)) - 1
                  IN  IF idx + value < Len(months)
                      THEN get_year_month(v.id, cal, months[idx + value + 1])
                      ELSE ViewErr("OutOfCalendarError")

(* MonthCalendar.__sub__ *)
MonthCalendar_sub(reg, v, value) ==
    IF value < 0 THEN MonthCalendar_add(reg, v, 0 - value)
    ELSE IF v.id \notin DOMAIN reg THEN ViewErr("KeyError")
    ELSE LET cal == reg[v.id]
             months == month_list(cal)
         IN  IF hash(v) \notin Range(months) THEN ViewErr("ValueError")
             ELSE LET idx == IndexOf(months, hash(v)) - 1
                  IN  IF idx >= value
                      THEN get_year_month(v.id, cal, months[idx - value + 1])
                      ELSE ViewErr("OutOfCalendarError")

(* the .year or .month of the date a step returned *)
view_of(cls, id, cal, res) ==
    IF res.kind # "TradingDate" THEN ViewErr(res.kind)
    ELSE IF cls = "YearCalendar" THEN GotView(TradingDate_year(id, cal, res.val))
    ELSE GotView(TradingDate_month(id, cal, res.val))

(* YearCalendar.next and MonthCalendar.next: `self.end.next()` and then    *)
(* its year or month                                                       *)
view_next(reg, v) ==
    IF v.id \notin DOMAIN reg THEN ViewErr("KeyError")
    ELSE view_of(v.cls, v.id, reg[v.id], TradingDate_next(reg[v.id], end(v.cache)))

(* YearCalendar.last and MonthCalendar.last: `self.start.last()` and then  *)
(* its year or month                                                       *)
view_last(reg, v) ==
    IF v.id \notin DOMAIN reg THEN ViewErr("KeyError")
    ELSE view_of(v.cls, v.id, reg[v.id], TradingDate_last(reg[v.id], start(v.cache)))

(* v + n and v - n by the class of v *)
view_add(reg, v, value) ==
    IF v.cls = "YearCalendar" THEN YearCalendar_add(reg, v, value)
    ELSE MonthCalendar_add(reg, v, value)

view_sub(reg, v, value) ==
    IF v.cls = "YearCalendar" THEN YearCalendar_sub(reg, v, value)
    ELSE MonthCalendar_sub(reg, v, value)

(* calendars of up to three years with a year missing in between, of      *)
(* consecutive and of distant months                                       *)
ViewUniverse ==
    {<<FirstYear, 1, 1>>, <<FirstYear, 1, 31>>, <<FirstYear, 12, 31>>,
     <<FirstYear + 1, 6, 15>>, <<FirstYear + 3, 1, 1>>, <<FirstYear + 3, 2, 1>>}

ViewCalendars == {CalOf(S) : S \in (SUBSET ViewUniverse) \ {{}}}

(* the Year and Month views of the dates of the calendar *)
YearAndMonthViews(id, cal) ==
    UNION {{TradingDate_year(id, cal, x), TradingDate_month(id, cal, x)} : x \in DatesOf(cal)}

InitView ==
    /\ \E cal \in ViewCalendars : cache = register_calendar(<<>>, "user", cal)
    /\ calls = 0
    /\ last = NoCall
    /\ rng = <<>>
    /\ its = <<>>
    /\ hist = NoHist
    /\ thr = <<>>

(* v + n *)
ViewAdd ==
    \E v \in YearAndMonthViews("user", cache["user"]), n \in Offsets :
        /\ last.op = "none"
        /\ last' = [op |-> "view_add", args |-> <<v, n>>, res |-> view_add(cache, v, n)]
        /\ UNCHANGED <<cache, calls, rng, its, hist, thr>>

(* v - n *)
ViewSub ==
    \E v \in YearAndMonthViews("user", cache["user"]), n \in Offsets :
        /\ last.op = "none"
        /\ last' = [op |-> "view_sub", args |-> <<v, n>>, res |-> view_sub(cache, v, n)]
        /\ UNCHANGED <<cache, calls, rng, its, hist, thr>>

(* v.next() and v.last() *)
ViewStep ==
    \E v \in YearAndMonthViews("user", cache["user"]) :
        /\ last.op = "none"
        /\ \/ last' = [op |-> "view_next", args |-> <<v, 1>>, res |-> view_next(cache, v)]
           \/ last' = [op |-> "view_last", args |-> <<v, 1>>, res |-> view_last(cache, v)]
        /\ UNCHANGED <<cache, calls, rng, its, hist, thr>>

NextView == ViewAdd \/ ViewSub \/ ViewStep \/ Return

SpecView == InitView /\ [][NextView]_vars

(***************************************************************************)
(* Threads calling get_chinese_calendar with no lock, one statement at a   *)
(* time.  y, m and cal are locals of the call; ws is the list of workdays  *)
(* the provider returns.                                                   *)
(***************************************************************************)
Threads == 1 .. NumThreads

Idle(ws) == [pc |-> "idle", ws |-> ws, i |-> 0, y |-> 0, m |-> 0, cal |-> <<>>, res |-> <<>>]

(* one iteration of the loop over the workdays, for the workday x *)
build_step(x, y, m, cal) ==
    IF x[1] = y
    THEN IF x[2] = m
         THEN [cal EXCEPT ![y][m] = Append(@, x[3])]
         ELSE [cal EXCEPT ![y] = DictSet(@, x[2], <<x[3]>>)]
    ELSE DictSet(cal, x[1], DictSet(<<>>, x[2], <<x[3]>>))

(* a bug: the dict under construction is the cache entry itself *)
loop_publish_shared(reg, cal) == DictSet(reg, "chinese", cal)

(* the registry after an iteration of the loop: cal is a local, the        *)
(* registry is not written                                                 *)
loop_publish(reg, cal) == reg

InitConc ==
    /\ cache = <<>>
    /\ calls = 0
    /\ last = NoCall
    /\ rng = <<>>
    /\ its = <<>>
    /\ hist = NoHist
    /\ \E ws \in ProviderLists : thr = [t \in Threads |-> Idle(ws)]

(* a thread enters get_chinese_calendar *)
TCall(t) ==
    /\ thr[t].pc \in {"idle", "done"}
    /\ thr' = [thr EXCEPT ![t] = [Idle(thr[t].ws) EXCEPT !.pc = "check"]]
    /\ UNCHANGED <<cache, calls, last, rng, its, hist>>

(* `if "chinese" not in self.__calendar_cache:` and the two assignments    *)
(* that follow                                                             *)
TCheck(t) ==
    /\ thr[t].pc = "check"
    /\ thr' = [thr EXCEPT ![t] =
                  IF chinese_cached(cache) THEN [@ EXCEPT !.pc = "return"]
                  ELSE [@ EXCEPT !.pc = "provider", !.y = ChineseStartYear, !.m = 1,
                                 !.cal = DictSet(<<>>, ChineseStartYear, DictSet(<<>>, 1, <<>>))]]
    /\ UNCHANGED <<cache, calls, last, rng, its, hist>>

(* chinese_calendar.get_workdays(...) *)
TProvider(t) ==
    /\ thr[t].pc = "provider"
    /\ calls' = calls + 1
    /\ thr' = [thr EXCEPT ![t] = [@ EXCEPT !.pc = "loop", !.i = 1]]
    /\ UNCHANGED <<cache, last, rng, its, hist>>

(* one iteration of the for loop, or its end *)
TLoop(t) ==
    /\ thr[t].pc = "loop"
    /\ IF thr[t].i > Len(thr[t].ws)
       THEN /\ thr' = [thr EXCEPT ![t] = [@ EXCEPT !.pc = "publish"]]
            /\ cache' = cache
       ELSE LET x == thr[t].ws[thr[t].i]
                cal == build_step(x, thr[t].y, thr[t].m, thr[t].cal)
            IN  /\ thr' = [thr EXCEPT ![t] =
                              [@ EXCEPT !.i = @ + 1, !.y = x[1], !.m = x[2], !.cal = cal]]
                /\ cache' = loop_publish(cache, cal)
    /\ UNCHANGED <<calls, last, rng, its, hist>>

(* `self.__calendar_cache["chinese"] = cal` *)
TPublish(t) ==
    /\ thr[t].pc = "publish"
    /\ cache' = DictSet(cache, "chinese", thr[t].cal)
    /\ thr' = [thr EXCEPT ![t] = [@ EXCEPT !.pc = "return"]]
    /\ UNCHANGED <<calls, last, rng, its, hist>>

(* `return self.__calendar_cache["chinese"]` *)
TReturn(t) ==
    /\ thr[t].pc = "return"
    /\ thr' = [thr EXCEPT ![t] = [@ EXCEPT !.pc = "done", !.res = cache["chinese"]]]
    /\ UNCHANGED <<cache, calls, last, rng, its, hist>>

NextConc ==
    \E t \in Threads :
        TCall(t) \/ TCheck(t) \/ TProvider(t) \/ TLoop(t) \/ TPublish(t) \/ TReturn(t)

SpecConc == InitConc /\ [][NextConc]_vars

(***************************************************************************)
(* What the calls are expected to return, stated on the ascending list of  *)
(* all dates of the calendar.                                              *)
(***************************************************************************)
UserCal == cache["user"]

(* the yyyymmdd values of the calendar *)
IntsOf(cal) == {asint(t) : t \in DatesOf(cal)}

(* all yyyymmdd values of the calendar, ascending *)
Flat(cal) == SortedSeq(IntsOf(cal))

(* position of the TradingDate x in Flat(cal) *)
PosOf(cal, x) == IndexOf(Flat(cal), asint(x))

(* the result is the calendar date whose yyyymmdd is n *)
IsDate(res, cal, n) ==
    /\ res.kind = "TradingDate"
    /\ res.val \in DatesOf(cal)
    /\ asint(res.val) = n

(* the result x (+) k in positions: the date at PosOf(x) + k, or OutOfCalendarError *)
IsShifted(res, cal, x, k) ==
    IF PosOf(cal, x) + k \in 1 .. Len(Flat(cal))
    THEN IsDate(res, cal, Flat(cal)[PosOf(cal, x) + k])
    ELSE res.kind = "OutOfCalendarError"

(* the policy token that selects get_nearest_date_before *)
BeforePolicy(op) == IF op = "date" THEN "use_before" ELSE "use_last"

(* C1: get_nearest_date_after(d) is the smallest calendar date >= d and    *)
(* raises OutOfCalendarError exactly when there is none;                   *)
(* get_nearest_date_before(d) is the largest calendar date <= d and raises *)
(* OutOfCalendarError exactly when there is none.                          *)
C1_NearestBrackets ==
    last.op \in {"get_trading_date", "date"} =>
        LET d == last.args[1]
            later == {n \in IntsOf(UserCal) : n >= d}
            earlier == {n \in IntsOf(UserCal) : n <= d}
        IN  /\ last.args[2] = "use_next" =>
                IF later = {} THEN last.res.kind = "OutOfCalendarError"
                ELSE IsDate(last.res, UserCal, SetMin(later))
            /\ last.args[2] = BeforePolicy(last.op) =>
                IF earlier = {} THEN last.res.kind = "OutOfCalendarError"
                ELSE IsDate(last.res, UserCal, SetMax(earlier))

(* a date of month 13 of a calendar year, resolved forward into the next   *)
(* year                                                                    *)
C1_Witness ==
    /\ last.op = "get_trading_date"
    /\ last.args[2] = "use_next"
    /\ last.args[1] \notin IntsOf(UserCal)
    /\ split_date(last.args[1])[1] \in DOMAIN UserCal
    /\ last.res.kind = "TradingDate"
    /\ split_date(last.args[1])[2] = 13
    /\ last.res.val[1] > split_date(last.args[1])[1]

(* C2: with the policy "raise", a member date is returned as a TradingDate *)
(* and NotOnCalendarError is raised only for a date absent from the        *)
(* calendar.                                                               *)
C2_RaiseOnlyWhenAbsent ==
    (last.op \in {"get_trading_date", "date"} /\ last.args[2] = "raise") =>
        IF last.args[1] \in IntsOf(UserCal)
        THEN IsDate(last.res, UserCal, last.args[1])
        ELSE last.res.kind = "NotOnCalendarError"

(* C3: x + n is the date n positions after x in the ascending list of all  *)
(* dates (before x for negative n), x - n the date n positions before, and *)
(* OutOfCalendarError is raised exactly when that position does not exist. *)
C3_ArithmeticByPosition ==
    /\ last.op = "add" => IsShifted(last.res, UserCal, last.args[1], last.args[2])
    /\ last.op = "sub" => IsShifted(last.res, UserCal, last.args[1], 0 - last.args[2])

(* x + n crossed a year that the calendar does not have *)
C3_Witness ==
    /\ last.op = "add"
    /\ last.args[2] >= 2
    /\ last.res.kind = "TradingDate"
    /\ last.res.val[1] > last.args[1][1] + 1

(* C4: (x + n) - n = x whenever x + n does not raise, and (x - n) + n = x  *)
(* whenever x - n does not raise.                                          *)
C4_RoundTrip ==
    last.op \in {"add_then_sub", "sub_then_add"} =>
        /\ last.res.kind = "TradingDate"
        /\ last.res.val = last.args[1]

(* a round trip that left the month of x and came back *)
C4_Witness ==
    /\ last.op = "add_then_sub"
    /\ last.args[2] >= 2
    /\ last.res.val = last.args[1]
    /\ Cardinality({t \in DatesOf(UserCal) : t[1] = last.args[1][1] /\ t[2] = last.args[1][2]
                                             /\ t[3] >= last.args[1][3]}) <= last.args[2]

(* C5: get_trading_dates(start, end) yields exactly the calendar dates d   *)
(* with start <= d <= end, ascending, each once, and finishes normally;    *)
(* an omitted start or end stands for the calendar's first or last date.   *)
C5_ExactlyTheDatesBetween ==
    last.op = "get_trading_dates" =>
        LET lo == IF last.args[1] = None THEN asint(start(UserCal)) ELSE last.args[1][1]
            hi == IF last.args[2] = None THEN asint(end(UserCal)) ELSE last.args[2][1]
            want == SortedSeq({n \in IntsOf(UserCal) : lo <= n /\ n <= hi})
        IN  /\ last.res.kind = "done"
            /\ [i \in DOMAIN last.res.out |-> asint(last.res.out[i])] = want

(* the generator i has ended: exhausted, or ended by an exception *)
Ended(i) == its[i].pc \in {"done", "raised"}

(* C6: with start a calendar date, stop within the calendar's first..last  *)
(* span and a non-zero step, iteration ends exhausted and never by an      *)
(* exception, whatever the step and the inclusive flag.                    *)
C6_IterationNeverRaises ==
    (/\ rng # <<>>
     /\ rng.step # 0
     /\ asint(start(UserCal)) <= rng.stop
     /\ rng.stop <= asint(end(UserCal))) =>
        \A i \in Gens : its[i].pc # "raised"

(* what the two generators have yielded so far agrees position by position *)
SamePrefix ==
    \A k \in (DOMAIN its[1].out) \cap (DOMAIN its[2].out) : its[1].out[k] = its[2].out[k]

(* every generator starts from the stored start, and two ended generators  *)
(* have yielded the same sequence and ended the same way                   *)
SameSequences ==
    rng # <<>> =>
        /\ SamePrefix
        /\ \A i \in Gens : its[i].out # <<>> => its[i].out[1] = rng.start
        /\ (Ended(1) /\ Ended(2)) =>
               (its[1].out = its[2].out /\ its[1].pc = its[2].pc /\ its[1].err = its[2].err)

(* C7: a DateRange is restartable: two iterations of the same range, in    *)
(* any interleaving, yield identical sequences, each from start; iteration *)
(* changes neither the stored start/stop/step/inclusive nor the calendar.  *)
C7_Restartable ==
    /\ []SameSequences
    /\ [][rng # <<>> => (rng' = rng /\ cache' = cache)]_vars

(* one iteration is exhausted after two or more dates, and another of the  *)
(* same range has just yielded its first date, which is start again        *)
C7_Witness ==
    /\ rng # <<>>
    /\ its[1].pc = "done"
    /\ Len(its[1].out) >= 2
    /\ its[2].pc = "running"
    /\ its[2].out = <<rng.start>>

(* C8: with step = 0 the iteration fails with ValueError on its first pull *)
(* and yields no date, whatever start, stop and inclusive are.             *)
C8_ZeroStepFails ==
    (rng # <<>> /\ rng.step = 0) =>
        \A i \in Gens :
            /\ its[i].out = <<>>
            /\ its[i].pc \in {"unborn", "fresh", "raised"}
            /\ its[i].pc = "raised" => its[i].err = "ValueError"

(* a zero-step range whose start lies beyond stop was pulled *)
C8_Witness ==
    /\ rng # <<>>
    /\ rng.step = 0
    /\ asint(rng.start) > rng.stop
    /\ its[1].pc = "raised"
    /\ its[1].err = "ValueError"

(* the id of the last registry call *)
LastId == last.args[1]

(* C9: get(id) returns the day-set passed to the most recent               *)
(* register(id, .), a later register overwriting the earlier entry;        *)
(* register(id, .) leaves the entry of every other id unchanged, and get   *)
(* of an id already present changes no entry.                              *)
LatestRegisterWins ==
    /\ \A id \in DOMAIN hist.latest : id \in DOMAIN cache /\ cache[id] = hist.latest[id]
    /\ (last.op \in {"get_calendar", "make_calendar"} /\ LastId \in DOMAIN hist.latest) =>
           last.res = GotCal(hist.latest[LastId])

OtherEntriesKept ==
    /\ last'.op \in {"register_calendar", "make_calendar"} =>
           \A j \in Ids \ {last'.args[1]} :
               /\ j \in DOMAIN cache' <=> j \in DOMAIN cache
               /\ j \in DOMAIN cache => cache'[j] = cache[j]
    /\ (last'.op = "get_calendar" /\ last'.args[1] \in DOMAIN cache) => cache' = cache

C9_LatestRegisterWins == []LatestRegisterWins /\ [][OtherEntriesKept]_vars

(* a get of a user id returned the day-set that replaced an earlier one,   *)
(* while another id holds a different day-set                              *)
C9_Witness ==
    /\ last.op = "get_calendar"
    /\ LastId = "user"
    /\ hist.replaced
    /\ "user" \in DOMAIN hist.latest
    /\ last.res = GotCal(hist.latest["user"])
    /\ "other" \in DOMAIN cache
    /\ cache["other"] # cache["user"]

(* the provider is called at most once, and not before a get of "chinese"  *)
ProviderAtMostOnce == calls <= 1 /\ (calls = 1 => hist.gets >= 1)

(* the provider is called only by the first get of "chinese" *)
ProviderOnlyOnFirstGet ==
    calls' # calls =>
        /\ last'.op = "get_calendar"
        /\ last'.args[1] = "chinese"
        /\ hist.gets = 0
        /\ calls' = 1

LaterGetsFromCache ==
    /\ ProviderAtMostOnce
    /\ (last.op = "get_calendar" /\ LastId = "chinese" /\ hist.gets >= 2) =>
           last.res = GotCal(IF hist.over THEN hist.latest["chinese"] ELSE hist.first)

InvalidArgument == "ValueError"

(* C11: registering an empty day list fails with InvalidArgument and       *)
(* leaves the registry unchanged, so that no id ever maps to an empty      *)
(* day-set; a get of an id that is not registered fails with the same      *)
(* InvalidArgument kind, not with another exception and not with a value.  *)
EmptyRegisterRejected ==
    /\ \A id \in DOMAIN cache : cache[id] # <<>>
    /\ (last.op = "register_calendar" /\ last.args[2] = <<>>) =>
           last.res.kind = InvalidArgument
    /\ (last.op = "get_calendar" /\ LastId \notin DOMAIN cache) =>
           last.res.kind = InvalidArgument

EmptyRegisterChangesNothing ==
    (last'.op = "register_calendar" /\ last'.args[2] = <<>>) => cache' = cache

C11_EmptyAndUnknownRejected ==
    []EmptyRegisterRejected /\ [][EmptyRegisterChangesNothing]_vars

(* the canonical integer encoding of an operand *)
Encoding(v) == IF v.cls \in {"int", "str"} THEN int_of(v) ELSE hash(v)

IsView(v) == v.cls \in ViewClasses

IsWhole(v) == v.cls = "TradingCalendar"

(* a comparison of two operands neither of which is a whole calendar *)
ValueComparison ==
    /\ last.op = "compare"
    /\ ~IsWhole(last.args[1])
    /\ ~IsWhole(last.args[3])

(* C12 as stated: every comparison between a TradingDate or a view and a   *)
(* TradingDate, a view, an integer or a yyyymmdd string gives the result   *)
(* of comparing the two canonical integer encodings as integers, also when *)
(* the encodings differ in their number of digits.                         *)
C12_ComparesIntegerEncodings ==
    ValueComparison =>
        last.res = Bool(Holds(last.args[2],
                              int_cmp(Encoding(last.args[1]), Encoding(last.args[3]))))

(* the number of decimal digits of n >= 0 *)
RECURSIVE NumDigits(_)
NumDigits(n) == IF n < 10 THEN 1 ELSE 1 + NumDigits(n \div 10)

(* n without its last k decimal digits *)
RECURSIVE DropDigits(_, _)
DropDigits(n, k) == IF k = 0 THEN n ELSE DropDigits(n \div 10, k - 1)

(* the order of two encodings after the longer is cut to the digits of the *)
(* shorter, the shorter coming first on a tie                              *)
PrefixOrder(a, b) ==
    LET p == NumDigits(a)
        q == NumDigits(b)
    IN  IF p = q THEN int_cmp(a, b)
        ELSE IF p < q
        THEN IF a = DropDigits(b, q - p) THEN 0 - 1 ELSE int_cmp(a, DropDigits(b, q - p))
        ELSE IF DropDigits(a, p - q) = b THEN 1 ELSE int_cmp(DropDigits(a, p - q), b)

(* C12 amended: a TradingDate compared with a TradingDate, an integer or a *)
(* yyyymmdd string gives the integer comparison of the encodings; when     *)
(* either operand is a view the encodings are compared as decimal strings: *)
(* as integers when they have the same number of digits, and otherwise     *)
(* after cutting the longer one to the length of the shorter, which comes  *)
(* first on a tie.                                                         *)
C12_ViewsCompareAsStrings ==
    ValueComparison =>
        LET a == Encoding(last.args[1])
            b == Encoding(last.args[3])
        IN  IF IsView(last.args[1]) \/ IsView(last.args[3])
            THEN last.res = Bool(Holds(last.args[2], PrefixOrder(a, b)))
            ELSE last.res = Bool(Holds(last.args[2], int_cmp(a, b)))

(* a Year view found greater than a date of an earlier year, although its  *)
(* four-digit encoding is the smaller integer                              *)
C12_Witness ==
    /\ ValueComparison
    /\ last.args[1].cls = "YearCalendar"
    /\ last.args[3].cls = "TradingDate"
    /\ last.args[2] = ">"
    /\ last.args[3].val[1] < hash(last.args[1])
    /\ Encoding(last.args[1]) < Encoding(last.args[3])
    /\ last.res = Bool(TRUE)

(* an == comparison *)
EqualityOf(a, b) ==
    /\ last.op = "compare"
    /\ last.args[2] = "=="
    /\ a = last.args[1]
    /\ b = last.args[3]

(* whole == whole is true exactly when the two ids are equal *)
WholeEqualityById ==
    \A a, b \in WholeCalendars(UserCal) :
        EqualityOf(a, b) => last.res = Bool(a.id = b.id)

(* C13 as stated: equality of two whole calendars is decided by id alone,  *)
(* and equality of a whole calendar and a date or view, in either order,   *)
(* yields a boolean and not an error.                                      *)
C13_WholeAgainstValueIsBoolean ==
    /\ WholeEqualityById
    /\ \A w \in WholeCalendars(UserCal), x \in DatesAndViews("user", UserCal) :
           (EqualityOf(w, x) \/ EqualityOf(x, w)) => last.res.kind = "bool"

(* C13 amended: equality of two whole calendars is decided by id alone,    *)
(* whatever their contents; equality of a whole calendar and a date or     *)
(* view, in either order, raises TypeError.                                *)
C13_WholeAgainstValueRaises ==
    /\ WholeEqualityById
    /\ \A w \in WholeCalendars(UserCal), x \in DatesAndViews("user", UserCal) :
           (EqualityOf(w, x) \/ EqualityOf(x, w)) => last.res = TypeError

(* two whole calendars of one id and different contents were found equal *)
C13_Witness ==
    /\ last.op = "compare"
    /\ last.args[2] = "=="
    /\ IsWhole(last.args[1])
    /\ IsWhole(last.args[3])
    /\ last.args[1].cache # last.args[3].cache
    /\ last.res = Bool(TRUE)

(* the triple is a date of the calendar *)
IsMember(td) == td \in DatesOf(UserCal)

(* C14: every TradingDate a lookup, start, end, the iteration of the       *)
(* calendar, x + n, x - n, next(), last() or a DateRange produces is a     *)
(* (year, month, day) of the calendar's day-set.                           *)
C14_ProducedDatesAreMembers ==
    /\ last.res.kind = "TradingDate" => IsMember(last.res.val)
    /\ \A k \in DOMAIN last.res.out : IsMember(last.res.out[k])
    /\ \A i \in DOMAIN its :
           /\ \A k \in DOMAIN its[i].out : IsMember(its[i].out[k])
           /\ its[i].pc \in {"running", "done"} => IsMember(its[i].date)

(* next() of a 31st, whose raw successor is day 32, gave a date of a later *)
(* year                                                                    *)
C14_Witness ==
    /\ last.op = "next"
    /\ last.args[1][3] = 31
    /\ last.res.kind = "TradingDate"
    /\ last.res.val[1] > last.args[1][1]
    /\ IsMember(last.res.val)

(* C15: on a well-formed calendar x.next() has the outcome of x + 1, the   *)
(* same date or OutOfCalendarError for both at the calendar's last date,   *)
(* and x.last() has the outcome of x - 1, the same date or                 *)
(* OutOfCalendarError for both at the calendar's first date.               *)
C15_StepsCoincide ==
    /\ last.op = "next" =>
           /\ last.res = TradingDate_add(UserCal, last.args[1], 1)
           /\ last.res.kind \in {"TradingDate", "OutOfCalendarError"}
           /\ last.res.kind = "OutOfCalendarError" <=> last.args[1] = end(UserCal)
    /\ last.op = "last" =>
           /\ last.res = TradingDate_sub(UserCal, last.args[1], 1)
           /\ last.res.kind \in {"TradingDate", "OutOfCalendarError"}
           /\ last.res.kind = "OutOfCalendarError" <=> last.args[1] = start(UserCal)

(* last() stepped back over a year the calendar does not have *)
C15_Witness ==
    /\ last.op = "last"
    /\ last.res.kind = "TradingDate"
    /\ last.res.val[1] < last.args[1][1] - 1
    /\ last.res = TradingDate_sub(UserCal, last.args[1], 1)

(* the boundary condition on the yyyymmdd value n *)
WithinBoundary(r, n) ==
    IF r.step > 0
    THEN n < r.stop \/ (r.inclusive /\ n = r.stop)
    ELSE n > r.stop \/ (r.inclusive /\ n = r.stop)

(* the yyyymmdd values at the positions pos, pos + step, pos + 2 * step,   *)
(* ... of the calendar, up to the first position that does not exist or    *)
(* whose date fails the boundary condition                                 *)
RECURSIVE ExpectedFrom(_, _, _)
ExpectedFrom(cal, r, pos) ==
    IF pos \notin DOMAIN Flat(cal) THEN <<>>
    ELSE IF ~WithinBoundary(r, Flat(cal)[pos]) THEN <<>>
    ELSE <<Flat(cal)[pos]>> \o ExpectedFrom(cal, r, pos + r.step)

Expected(cal, r) == ExpectedFrom(cal, r, PosOf(cal, r.start))

IsPrefix(a, b) == Len(a) <= Len(b) /\ \A k \in DOMAIN a : a[k] = b[k]

Emitted(i) == [k \in DOMAIN its[i].out |-> asint(its[i].out[k])]

(* C16: with a non-zero step a DateRange emits exactly start, start +      *)
(* step, start + 2 * step, ... in calendar positions, in that order, up to *)
(* and including the last that satisfies the boundary condition; nothing   *)
(* when start fails it; every emitted date satisfies it and the sequence   *)
(* is strictly monotonic in the direction of step.                         *)
C16_EmittedSequence ==
    (rng # <<>> /\ rng.step # 0) =>
        \A i \in Gens :
            /\ IsPrefix(Emitted(i), Expected(UserCal, rng))
            /\ Ended(i) => Emitted(i) = Expected(UserCal, rng)
            /\ \A k \in DOMAIN Emitted(i) : WithinBoundary(rng, Emitted(i)[k])
            /\ \A k \in DOMAIN Emitted(i) :
                   k > 1 => IF rng.step > 0 THEN Emitted(i)[k - 1] < Emitted(i)[k]
                            ELSE Emitted(i)[k - 1] > Emitted(i)[k]

(* an inclusive range of step -2 has ended after emitting two dates, the   *)
(* second being stop                                                       *)
C16_Witness ==
    /\ rng # <<>>
    /\ rng.step = 0 - 2
    /\ rng.inclusive
    /\ Ended(1)
    /\ Len(its[1].out) = 2
    /\ asint(its[1].out[2]) = rng.stop
    /\ PosOf(UserCal, its[1].out[2]) = PosOf(UserCal, rng.start) - 2

(* the unit of a date: its year for a Year view, its yyyymm for a Month    *)
(* view                                                                    *)
UnitOf(cls, t) == IF cls = "YearCalendar" THEN t[1] ELSE t[1] * 100 + t[2]

(* the units that hold at least one trading day, ascending *)
Units(cls, cal) == SortedSeq({UnitOf(cls, t) : t \in DatesOf(cal)})

(* the result is the view of the unit k positions after the unit of v and  *)
(* holds exactly the trading days of that unit, or OutOfCalendarError when *)
(* there is no such position                                               *)
IsShiftedView(res, cal, v, k) ==
    LET units == Units(v.cls, cal)
        pos == IndexOf(units, hash(v)) + k
    IN  IF pos \in DOMAIN units
        THEN /\ res.kind = v.cls
             /\ hash(res.val) = units[pos]
             /\ DatesOf(res.val.cache) = {t \in DatesOf(cal) : UnitOf(v.cls, t) = units[pos]}
        ELSE res.kind = "OutOfCalendarError"

(* C17: for a Year or Month view v and an integer n, v + n is the view of  *)
(* the unit n positions after v's in the ascending list of the years (the  *)
(* year-month pairs) that hold a trading day, v - n the view n positions   *)
(* before, OutOfCalendarError being raised exactly when the position does  *)
(* not exist; v.next() and v.last() return what v + 1 and v - 1 return.    *)
C17_ViewArithmeticByPosition ==
    /\ last.op = "view_add" => IsShiftedView(last.res, UserCal, last.args[1], last.args[2])
    /\ last.op = "view_sub" => IsShiftedView(last.res, UserCal, last.args[1], 0 - last.args[2])
    /\ last.op = "view_next" =>
           /\ IsShiftedView(last.res, UserCal, last.args[1], 1)
           /\ last.res = view_add(cache, last.args[1], 1)
    /\ last.op = "view_last" =>
           /\ IsShiftedView(last.res, UserCal, last.args[1], 0 - 1)
           /\ last.res = view_sub(cache, last.args[1], 1)

(* a Month view moved two positions on, over a year without trading days,  *)
(* into a month of a later year                                            *)
C17_Witness ==
    /\ last.op = "view_add"
    /\ last.args[1].cls = "MonthCalendar"
    /\ last.args[2] = 2
    /\ last.res.kind = "MonthCalendar"
    /\ FirstYearOf(last.res.val) > FirstYearOf(last.args[1]) + 1
    /\ FirstYearOf(last.args[1]) + 1 \notin DOMAIN UserCal

(* the day-set built from all the workdays of the provider *)
FullDaySet == get_chinese_calendar(<<>>, thr[1].ws)["chinese"]

(* C18: whatever the interleaving of the threads getting "chinese" on      *)
(* first use, the cache entry is at every step absent or the completely    *)
(* built day-set, and every get returns the completely built day-set.      *)
C18_NeverPartiallyBuilt ==
    /\ "chinese" \in DOMAIN cache => cache["chinese"] = FullDaySet
    /\ \A t \in Threads : thr[t].pc = "done" => thr[t].res = FullDaySet

(* two threads called the provider; one has published and returned while   *)
(* the other is still in its loop with a part of the day-set               *)
C18_Witness ==
    /\ calls >= 2
    /\ \E t, u \in Threads :
           /\ thr[t].pc = "done"
           /\ thr[t].res = FullDaySet
           /\ thr[u].pc = "loop"
           /\ thr[u].i > 1
           /\ thr[u].cal # FullDaySet

====
